---- MODULE Spec2Model ----
(***************************************************************************)
(* Model of analysis.py: the text metrics (polarity, subjectivity, Fog     *)
(* Index, complex words, syllables, word counts, pronouns) and the         *)
(* Analyze handler of main() that assembles them into the report.          *)
(*                                                                         *)
(* A text is a sequence of one-character strings.  A Python float that is  *)
(* the quotient of two integers is the pair <<numerator, denominator>>     *)
(* with a positive denominator; pairs are compared by cross                *)
(* multiplication.  A call either returns a value or raises: it is the     *)
(* record Return(v) or Raise(e).                                           *)
(***************************************************************************)
EXTENDS Integers, Sequences, FiniteSets, TLC

VARIABLES input_type, text, url, page, stop_words, positive_words,
          negative_words, pc, exception, report

vars == <<input_type, text, url, page, stop_words, positive_words,
          negative_words, pc, exception, report>>

----------------------------------------------------------------------------
(* Bounds of the model. *)

\* longest text of the general specification
MaxLen == 4
\* longest text of the Fog Index specification
MaxLenFog == 7
\* longest text of the complex-word specification
MaxLenComplex == 6
\* largest denominator of a polarity handed to analyze_sentiment directly
MaxDen == 10
\* most words of a text scored by the Weighted-Lexicon strategy
MaxWordsLexicon == 5

----------------------------------------------------------------------------
(* Characters and strings. *)

\* string.punctuation, as far as the alphabets below reach into it
Punctuation == {".", "!", "?", ","}

\* the character class [.!?] of the sentence split
Terminators == {".", "!", "?"}

\* what str.split() splits on
Whitespace == {" "}

\* str.lower() on one character
LowerChar(c) ==
    CASE c = "I" -> "i"
      [] c = "E" -> "e"
      [] c = "B" -> "b"
      [] OTHER -> c

\* text.lower()
lower(s) == [i \in 1..Len(s) |-> LowerChar(s[i])]

IsPunct(c) == c \in Punctuation

\* text.translate(str.maketrans("", "", string.punctuation))
strip_punctuation(s) == SelectSeq(s, LAMBDA c : ~IsPunct(c))

\* str.split(): the maximal runs of non-whitespace characters, in order.
\* cur is the run being read, acc the runs already closed.
RECURSIVE SplitFrom(_, _, _, _)
SplitFrom(s, i, cur, acc) ==
    IF i > Len(s)
    THEN IF cur = <<>> THEN acc ELSE Append(acc, cur)
    ELSE IF s[i] \in Whitespace
         THEN SplitFrom(s, i + 1, <<>>, IF cur = <<>> THEN acc ELSE Append(acc, cur))
         ELSE SplitFrom(s, i + 1, Append(cur, s[i]), acc)

split(s) == SplitFrom(s, 1, <<>>, <<>>)

\* re.split(r"[.!?]+", text): the pieces between maximal runs of terminators,
\* the empty pieces before the first run and after the last one included.
\* inrun tells that the previous character was a terminator.
RECURSIVE ReSplitFrom(_, _, _, _, _)
ReSplitFrom(s, i, cur, acc, inrun) ==
    IF i > Len(s)
    THEN Append(acc, cur)
    ELSE IF s[i] \in Terminators
         THEN IF inrun
              THEN ReSplitFrom(s, i + 1, cur, acc, TRUE)
              ELSE ReSplitFrom(s, i + 1, <<>>, Append(acc, cur), TRUE)
         ELSE ReSplitFrom(s, i + 1, Append(cur, s[i]), acc, FALSE)

\* the split with a trailing empty piece dropped
re_split_sentences_no_trailing_empty(s) ==
    LET pieces == ReSplitFrom(s, 1, <<>>, <<>>, FALSE)
    IN  IF Len(pieces) > 1 /\ pieces[Len(pieces)] = <<>>
        THEN SubSeq(pieces, 1, Len(pieces) - 1)
        ELSE pieces

re_split_sentences(s) == ReSplitFrom(s, 1, <<>>, <<>>, FALSE)

\* [word for word in text.split() if word not in stop_words], after the
\* lowercasing and the removal of punctuation every metric starts with
filtered_words(t, sw) ==
    SelectSeq(split(strip_punctuation(lower(t))), LAMBDA w : w \notin sw)

----------------------------------------------------------------------------
(* Values, exceptions and quotients. *)

Return(v) == [exc |-> "none", value |-> v]

Raise(e) == [exc |-> e]

\* a / b of two Python ints: ZeroDivisionError when b is 0
Div(a, b) == IF b = 0 THEN Raise("ZeroDivisionError") ELSE Return(<<a, b>>)

Zero == <<0, 1>>

REq(x, y) == x[1] * y[2] = y[1] * x[2]

RLt(x, y) == x[1] * y[2] < y[1] * x[2]

RLe(x, y) == x[1] * y[2] <= y[1] * x[2]

RAdd(x, y) == <<x[1] * y[2] + y[1] * x[2], x[2] * y[2]>>

RMul(x, y) == <<x[1] * y[1], x[2] * y[2]>>

----------------------------------------------------------------------------
(* The metrics. *)

Vowels == {"a", "e", "i", "o", "u", "y"}

\* a word is complex from this many syllables on
ComplexSyllables == 3

\* count_complex_words looks only at words longer than this
ShortWordLen == 2

\* for i, char in enumerate(word): if char in vowels:
\*     if i == 0 or word[i - 1] not in vowels: syllable_count += 1
\* from position i (1-based) to the end of the word
RECURSIVE vowel_group_loop(_, _)
vowel_group_loop(word, i) ==
    IF i > Len(word)
    THEN 0
    ELSE (IF word[i] \in Vowels /\ (i = 1 \/ word[i - 1] \notin Vowels) THEN 1 ELSE 0)
         + vowel_group_loop(word, i + 1)

\* word.endswith("e")
endswith_e(word) == Len(word) >= 1 /\ word[Len(word)] = "e"

\* the loop body of count_complex_words without the decrement for a word that
\* ends in a vowel and "e"
complex_word_increment_no_e_rule(word) ==
    IF Len(word) > ShortWordLen /\ vowel_group_loop(word, 1) >= ComplexSyllables
    THEN 1
    ELSE 0

\* the body of the for loop of count_complex_words for one word: 1 when the
\* word is counted, 0 when it is not
complex_word_increment(word) ==
    IF Len(word) > ShortWordLen
    THEN LET groups == vowel_group_loop(word, 1)
             syllable_count ==
                 IF endswith_e(word) /\ word[Len(word) - 1] \in Vowels
                 THEN groups - 1
                 ELSE groups
         IN  IF syllable_count >= ComplexSyllables THEN 1 ELSE 0
    ELSE 0

\* for word in words: the words counted from position i on
RECURSIVE complex_word_loop(_, _)
complex_word_loop(ws, i) ==
    IF i > Len(ws)
    THEN 0
    ELSE complex_word_increment(ws[i]) + complex_word_loop(ws, i + 1)

count_complex_words(t, sw) ==
    IF t = <<>>
    THEN 0
    ELSE complex_word_loop(filtered_words(t, sw), 1)

count_words(t, sw) ==
    IF t = <<>> THEN 0 ELSE Len(filtered_words(t, sw))

\* count_stop_words on the lowercased text with its punctuation left in
count_stop_words_unstripped(t, sw) ==
    IF t = <<>>
    THEN 0
    ELSE Len(SelectSeq(split(lower(t)), LAMBDA w : w \in sw))

count_stop_words(t, sw) ==
    IF t = <<>>
    THEN 0
    ELSE Len(SelectSeq(split(strip_punctuation(lower(t))), LAMBDA w : w \in sw))

\* count_syllables: word[-2] raises IndexError on a word of one character
count_syllables(word) ==
    LET groups == vowel_group_loop(word, 1)
    IN  IF endswith_e(word)
        THEN IF Len(word) < 2
             THEN Raise("IndexError")
             ELSE LET syllable_count ==
                          IF word[Len(word) - 1] \in Vowels THEN groups - 1 ELSE groups
                  IN  Return(IF syllable_count > 0 THEN syllable_count ELSE 1)
        ELSE Return(IF groups > 0 THEN groups ELSE 1)

\* sum(count_syllables(word) for word in words): the first word that raises
\* ends the sum
RECURSIVE sum_syllables(_, _)
sum_syllables(ws, i) ==
    IF i > Len(ws)
    THEN Return(0)
    ELSE LET one == count_syllables(ws[i])
         IN  IF one.exc # "none"
             THEN one
             ELSE LET rest == sum_syllables(ws, i + 1)
                  IN  IF rest.exc # "none" THEN rest ELSE Return(one.value + rest.value)

calculate_average_syllables_per_word(t, sw) ==
    IF t = <<>>
    THEN Return(Zero)
    ELSE LET words == filtered_words(t, sw)
             total_syllables == sum_syllables(words, 1)
             word_count == Len(words)
         IN  IF total_syllables.exc # "none"
             THEN total_syllables
             ELSE IF word_count # 0
                  THEN Div(total_syllables.value, word_count)
                  ELSE Return(Zero)

\* sum(len(word) for word in words), from position i on
RECURSIVE sum_word_lengths(_, _)
sum_word_lengths(ws, i) ==
    IF i > Len(ws) THEN 0 ELSE Len(ws[i]) + sum_word_lengths(ws, i + 1)

\* calculate_average_word_length dividing without a look at word_count
calculate_average_word_length_unguarded(t, sw) ==
    IF t = <<>>
    THEN Return(Zero)
    ELSE LET words == filtered_words(t, sw)
         IN  Div(sum_word_lengths(words, 1), Len(words))

calculate_average_word_length(t, sw) ==
    IF t = <<>>
    THEN Return(Zero)
    ELSE LET words == filtered_words(t, sw)
             total_word_length == sum_word_lengths(words, 1)
             word_count == Len(words)
         IN  IF word_count # 0 THEN Div(total_word_length, word_count) ELSE Return(Zero)

\* calculate_polarity_subjectivity with the positive and negative words
\* counted over all tokens, the stop words among them, and divided by the
\* number of filtered words
calculate_polarity_subjectivity_unfiltered_counts(t, sw, pw, nw) ==
    IF t = <<>>
    THEN Return(<<Zero, Zero>>)
    ELSE LET words == filtered_words(t, sw)
             every == split(strip_punctuation(lower(t)))
             positive_count == Len(SelectSeq(every, LAMBDA w : w \in pw))
             negative_count == Len(SelectSeq(every, LAMBDA w : w \in nw))
             total_words == Len(words)
         IN  IF total_words = 0
             THEN Return(<<Zero, Zero>>)
             ELSE Return(<<<<positive_count - negative_count, total_words>>,
                           <<Len(words), total_words>>>>)

\* calculate_polarity_subjectivity with only the positive and the negative
\* words counted as subjective
calculate_polarity_subjectivity_lexicon_subjective(t, sw, pw, nw) ==
    IF t = <<>>
    THEN Return(<<Zero, Zero>>)
    ELSE LET words == filtered_words(t, sw)
             positive_count == Len(SelectSeq(words, LAMBDA w : w \in pw))
             negative_count == Len(SelectSeq(words, LAMBDA w : w \in nw))
             subjective_count == Len(SelectSeq(words, LAMBDA w : w \in pw \cup nw))
             total_words == Len(words)
         IN  IF total_words = 0
             THEN Return(<<Zero, Zero>>)
             ELSE Return(<<<<positive_count - negative_count, total_words>>,
                           <<subjective_count, total_words>>>>)

\* the returned pair is <<polarity, subjectivity>>
calculate_polarity_subjectivity(t, sw, pw, nw) ==
    IF t = <<>>
    THEN Return(<<Zero, Zero>>)
    ELSE LET words == filtered_words(t, sw)
             positive_count == Len(SelectSeq(words, LAMBDA w : w \in pw))
             negative_count == Len(SelectSeq(words, LAMBDA w : w \in nw))
             subjective_count == Len(words)
             total_words == Len(words)
         IN  IF total_words = 0
             THEN Return(<<Zero, Zero>>)
             ELSE LET polarity == Div(positive_count - negative_count, total_words)
                      subjectivity == Div(subjective_count, total_words)
                  IN  Return(<<polarity.value, subjectivity.value>>)

\* 0.4 as a quotient
FogFactor == <<2, 5>>

\* the percentage of complex words is a ratio times this
Percent == <<100, 1>>

\* calculate_fog_index without the return for the empty text
calculate_fog_index_no_empty_check(t, sw) ==
    LET total_sentences == Len(re_split_sentences(t))
        total_words == Len(split(lower(t)))
        complex_words == count_complex_words(t, sw)
        ratio == Div(complex_words, total_words)
    IN  IF ratio.exc # "none"
        THEN ratio
        ELSE Return(RMul(FogFactor,
                         RAdd(<<total_words, total_sentences>>,
                              RMul(ratio.value, Percent))))

calculate_fog_index(t, sw) ==
    IF t = <<>>
    THEN Return(Zero)
    ELSE LET total_sentences == Len(re_split_sentences(t))
         IN  IF total_sentences = 0
             THEN Return(Zero)
             ELSE LET total_words == Len(split(lower(t)))
                      complex_words == count_complex_words(t, sw)
                      average_sentence_length == Div(total_words, total_sentences)
                      ratio == Div(complex_words, total_words)
                  IN  IF average_sentence_length.exc # "none"
                      THEN average_sentence_length
                      ELSE IF ratio.exc # "none"
                           THEN ratio
                           ELSE Return(RMul(FogFactor,
                                            RAdd(average_sentence_length.value,
                                                 RMul(ratio.value, Percent))))

\* the alternatives of pronoun_pattern
Pronouns ==
    { <<"i">>, <<"m","e">>, <<"m","y">>, <<"m","i","n","e">>, <<"y","o","u">>,
      <<"y","o","u","r">>, <<"y","o","u","r","s">>, <<"h","e">>, <<"s","h","e">>,
      <<"h","i","m">>, <<"h","e","r">>, <<"h","i","s">>, <<"h","e","r","s">>,
      <<"i","t">>, <<"i","t","s">>, <<"w","e">>, <<"u","s">>, <<"o","u","r">>,
      <<"o","u","r","s">>, <<"t","h","e","y">>, <<"t","h","e","m">>,
      <<"t","h","e","i","r">>, <<"t","h","e","i","r","s">>}

\* \w of the regular expression, over the characters of the model
IsWordChar(c) == c \notin Punctuation /\ c \notin Whitespace

\* the maximal runs of \w characters: a match of \b(...)\b is one whole run
RECURSIVE WordRunsFrom(_, _, _, _)
WordRunsFrom(s, i, cur, acc) ==
    IF i > Len(s)
    THEN IF cur = <<>> THEN acc ELSE Append(acc, cur)
    ELSE IF IsWordChar(s[i])
         THEN WordRunsFrom(s, i + 1, Append(cur, s[i]), acc)
         ELSE WordRunsFrom(s, i + 1, <<>>, IF cur = <<>> THEN acc ELSE Append(acc, cur))

\* len(re.findall(pronoun_pattern, text, re.IGNORECASE))
count_personal_pronouns(t) ==
    IF t = <<>>
    THEN 0
    ELSE Len(SelectSeq(WordRunsFrom(t, 1, <<>>, <<>>), LAMBDA r : lower(r) \in Pronouns))

\* the thresholds 0.2 and -0.2 of analyze_sentiment
PositiveThreshold == <<1, 5>>

NegativeThreshold == <<-1, 5>>

\* analyze_sentiment with the thresholds themselves labelled
analyze_sentiment_inclusive(polarity) ==
    IF RLe(PositiveThreshold, polarity)
    THEN "Positive"
    ELSE IF RLe(polarity, NegativeThreshold)
         THEN "Negative"
         ELSE "Neutral"

analyze_sentiment(polarity) ==
    IF RLt(PositiveThreshold, polarity)
    THEN "Positive"
    ELSE IF RLt(polarity, NegativeThreshold)
         THEN "Negative"
         ELSE "Neutral"

----------------------------------------------------------------------------
(* main(): one press of the Analyze button. *)

\* the report before any analysis has filled it
Blank ==
    [polarity |-> Zero, subjectivity |-> Zero, fog_index |-> Zero,
     complex_word_count |-> 0, word_count |-> 0,
     average_syllables_per_word |-> Zero, personal_pronoun_count |-> 0,
     average_word_length |-> Zero, average_sentence_length |-> Zero,
     percentage_complex_words |-> Zero, stop_word_count |-> 0,
     sentiment |-> ""]

\* len(text.split()) / len(re.split(r"[.!?]+", text)) if the latter > 0 else 0
main_average_sentence_length(t) ==
    IF Len(re_split_sentences(t)) > 0
    THEN Div(Len(split(t)), Len(re_split_sentences(t)))
    ELSE Return(Zero)

\* (complex_word_count / word_count) * 100 if word_count else 0
main_percentage_complex_words(complex_word_count, word_count) ==
    IF word_count # 0
    THEN RMul(<<complex_word_count, word_count>>, Percent)
    ELSE Zero

\* the block under st.spinner and the call of analyze_sentiment, in the order
\* of the source: the first call that raises ends the run
calculate_metrics(t, sw, pw, nw) ==
    LET ps == calculate_polarity_subjectivity(t, sw, pw, nw)
        fog_index == calculate_fog_index(t, sw)
        complex_word_count == count_complex_words(t, sw)
        word_count == count_words(t, sw)
        average_syllables_per_word == calculate_average_syllables_per_word(t, sw)
        personal_pronoun_count == count_personal_pronouns(t)
        average_word_length == calculate_average_word_length(t, sw)
        average_sentence_length == main_average_sentence_length(t)
        percentage_complex_words ==
            main_percentage_complex_words(complex_word_count, word_count)
        stop_word_count == count_stop_words(t, sw)
    IN  IF ps.exc # "none" THEN Raise(ps.exc)
        ELSE IF fog_index.exc # "none" THEN Raise(fog_index.exc)
        ELSE IF average_syllables_per_word.exc # "none"
             THEN Raise(average_syllables_per_word.exc)
        ELSE IF average_word_length.exc # "none" THEN Raise(average_word_length.exc)
        ELSE IF average_sentence_length.exc # "none"
             THEN Raise(average_sentence_length.exc)
        ELSE Return(
            [polarity |-> ps.value[1], subjectivity |-> ps.value[2],
             fog_index |-> fog_index.value,
             complex_word_count |-> complex_word_count,
             word_count |-> word_count,
             average_syllables_per_word |-> average_syllables_per_word.value,
             personal_pronoun_count |-> personal_pronoun_count,
             average_word_length |-> average_word_length.value,
             average_sentence_length |-> average_sentence_length.value,
             percentage_complex_words |-> percentage_complex_words,
             stop_word_count |-> stop_word_count,
             sentiment |-> analyze_sentiment(ps.value[1])])

\* scrape_text_from_url: the text of the page, or None on any error
NoPage == [ok |-> FALSE, text |-> <<>>]

scrape_text_from_url(u, p) == p

\* if input_type == "URL Analysis" and not url: st.error(...); return
main_no_url ==
    /\ pc = "idle"
    /\ input_type = "URL Analysis"
    /\ url = ""
    /\ pc' = "error"
    /\ UNCHANGED <<input_type, text, url, page, stop_words, positive_words,
                   negative_words, exception, report>>

\* elif input_type == "Text Input" and not text: st.error(...); return
main_no_text ==
    /\ pc = "idle"
    /\ input_type = "Text Input"
    /\ text = <<>>
    /\ pc' = "error"
    /\ UNCHANGED <<input_type, text, url, page, stop_words, positive_words,
                   negative_words, exception, report>>

\* text = scrape_text_from_url(url); if text is None: return
main_scrape_failed ==
    /\ pc = "idle"
    /\ input_type = "URL Analysis"
    /\ url # ""
    /\ ~scrape_text_from_url(url, page).ok
    /\ pc' = "scrape_failed"
    /\ UNCHANGED <<input_type, text, url, page, stop_words, positive_words,
                   negative_words, exception, report>>

\* the metrics are calculated on the text of the text area or of the page
main_analyze ==
    /\ pc = "idle"
    /\ \/ input_type = "Text Input" /\ text # <<>>
       \/ input_type = "URL Analysis" /\ url # "" /\ scrape_text_from_url(url, page).ok
    /\ text' = IF input_type = "URL Analysis"
               THEN scrape_text_from_url(url, page).text
               ELSE text
    /\ LET r == calculate_metrics(text', stop_words, positive_words, negative_words)
       IN  IF r.exc # "none"
           THEN /\ pc' = "raised"
                /\ exception' = r.exc
                /\ report' = report
           ELSE /\ pc' = "done"
                /\ exception' = exception
                /\ report' = r.value
    /\ UNCHANGED <<input_type, url, page, stop_words, positive_words, negative_words>>

main == main_no_url \/ main_no_text \/ main_scrape_failed \/ main_analyze

\* analyze_sentiment called on a polarity of its own
analyze_sentiment_call ==
    /\ pc = "label"
    /\ pc' = "labelled"
    /\ report' = [report EXCEPT !.sentiment = analyze_sentiment(report.polarity)]
    /\ UNCHANGED <<input_type, text, url, page, stop_words, positive_words,
                   negative_words, exception>>

----------------------------------------------------------------------------
(* Inputs and specifications. *)

\* the texts over an alphabet, up to a length
Texts(chars, n) == UNION {[1..k -> chars] : k \in 0..n}

\* the loaded word lists: none (every file failed to load), lists where a
\* word is both positive and negative, lists where a stop word is positive
NoWords == [stop |-> {}, pos |-> {}, neg |-> {}]

WordLists ==
    { NoWords,
      [stop |-> {<<"i">>}, pos |-> {<<"b">>, <<"b","e">>}, neg |-> {<<"b">>, <<"e","b">>}],
      [stop |-> {<<"i">>, <<"b">>}, pos |-> {<<"b">>, <<"b","e">>}, neg |-> {<<"e","b">>}] }

Chars == {"e", "b", "I", " ", "."}

\* the state when the Analyze button is pressed: the chosen input method,
\* what the user entered (a text of T), what the URL would serve (nothing, or
\* a text of P), the loaded word lists
InitOver(T, P, WL) ==
    /\ \E wl \in WL :
          /\ stop_words = wl.stop
          /\ positive_words = wl.pos
          /\ negative_words = wl.neg
    /\ pc = "idle"
    /\ exception = "none"
    /\ report = Blank
    /\ \/ /\ input_type = "Text Input"
          /\ text \in T
          /\ url = ""
          /\ page = NoPage
       \/ /\ input_type = "URL Analysis"
          /\ text = <<>>
          /\ \/ url = "" /\ page = NoPage
             \/ url = "u" /\ page \in {NoPage} \cup {[ok |-> TRUE, text |-> t] : t \in P}

Init == InitOver(Texts(Chars, MaxLen), Texts(Chars, MaxLen), WordLists)

Next == main

Spec == Init /\ [][Next]_vars

\* Texts long enough for a complex word beside another word: a stop word
\* makes the raw and the filtered word counts differ.
FogChars == {"e", "b", " "}

FogWordLists == {NoWords, [stop |-> {<<"e">>}, pos |-> {}, neg |-> {}]}

FogPages == {<<>>, <<"b">>}

InitFog == InitOver(Texts(FogChars, MaxLenFog), FogPages, FogWordLists)

SpecFog == InitFog /\ [][Next]_vars

\* Texts long enough for a word of three vowel groups that ends in a vowel
\* and "e", with punctuation inside words and a complex stop word.
ComplexChars == {"e", "b", " ", "."}

ComplexWordLists ==
    {NoWords, [stop |-> {<<"e","b","e","b","e">>}, pos |-> {}, neg |-> {}]}

InitComplex == InitOver(Texts(ComplexChars, MaxLenComplex), FogPages, ComplexWordLists)

SpecComplex == InitComplex /\ [][Next]_vars

\* analyze_sentiment on every quotient n/d in [-1, 1] with d up to MaxDen
InitLabel ==
    /\ pc = "label"
    /\ exception = "none"
    /\ \E d \in 1..MaxDen : \E n \in (-d)..d :
          report = [Blank EXCEPT !.polarity = <<n, d>>]
    /\ input_type = "Text Input"
    /\ text = <<>>
    /\ url = ""
    /\ page = NoPage
    /\ stop_words = {}
    /\ positive_words = {}
    /\ negative_words = {}

NextLabel == analyze_sentiment_call

SpecLabel == InitLabel /\ [][NextLabel]_vars

----------------------------------------------------------------------------
(* The Weighted-Lexicon strategy: word-boundary tokens, a negation flag, an  *)
(* intensifier bonus, and the running score over the number of tokens.       *)

\* word-boundary mode: the text lowercased, then its maximal runs of word
\* characters
tokenize_word_boundary(t) == WordRunsFrom(lower(t), 1, <<>>, <<>>)

NegationMarkers == {<<"n","o","t">>, <<"n","'","t">>, <<"n","o">>}

Intensifiers ==
    {<<"v","e","r","y">>, <<"e","x","t","r","e","m","e","l","y">>,
     <<"r","e","a","l","l","y">>}

\* the words that have a weight of their own
LexiconKeys == {<<"l","o","v","e">>, <<"a","m","a","z","i","n","g">>}

\* lookup with the default 0.0 for an absent word
lexicon_weight(w) == IF w \in LexiconKeys THEN <<9, 10>> ELSE Zero

\* the running score divided by the number of lexicon words in the text
weighted_final_score_over_hits(tokens, running) ==
    LET hits == Len(SelectSeq(tokens, LAMBDA w : w \in LexiconKeys))
    IN  IF hits = 0 THEN Zero ELSE <<running[1], running[2] * hits>>

\* final score = running score / total token count, or 0.0 if no tokens
weighted_final_score(tokens, running) ==
    IF Len(tokens) = 0 THEN Zero ELSE <<running[1], running[2] * Len(tokens)>>

\* the scan of the tokens from position i on, with the negation flag and the
\* running score so far: the running score after the last token
RECURSIVE weighted_scan(_, _, _, _)
weighted_scan(tokens, i, negation, running) ==
    IF i > Len(tokens)
    THEN running
    ELSE LET w == tokens[i]
         IN  IF w \in LexiconKeys /\ w \notin NegationMarkers /\ w \notin Intensifiers
             THEN weighted_scan(tokens, i + 1, FALSE,
                                RAdd(running,
                                     IF negation
                                     THEN <<-lexicon_weight(w)[1], lexicon_weight(w)[2]>>
                                     ELSE lexicon_weight(w)))
             ELSE IF w \in NegationMarkers
             THEN weighted_scan(tokens, i + 1, TRUE, running)
             ELSE IF /\ w \in Intensifiers
                     /\ i + 1 <= Len(tokens)
                     /\ tokens[i + 1] \in LexiconKeys
             THEN weighted_scan(tokens, i + 1, negation,
                                RAdd(running,
                                     RMul(lexicon_weight(tokens[i + 1]), <<1, 2>>)))
             ELSE weighted_scan(tokens, i + 1, FALSE, running)

\* the token count, the raw (running) score, the final score and the label
weighted_lexicon_sentiment(t) ==
    LET tokens == tokenize_word_boundary(t)
        running == weighted_scan(tokens, 1, FALSE, Zero)
        final == weighted_final_score(tokens, running)
    IN  [tokens |-> Len(tokens), raw |-> running, score |-> final,
         label |-> analyze_sentiment(final)]

\* the strategy called on the text
weighted_lexicon_call ==
    /\ pc = "lexicon"
    /\ pc' = "scored"
    /\ report' = weighted_lexicon_sentiment(text)
    /\ UNCHANGED <<input_type, text, url, page, stop_words, positive_words,
                   negative_words, exception>>

\* the words the scored texts are made of
Vocabulary ==
    {<<"I">>, <<"l","o","v","e">>, <<"t","h","i","s">>,
     <<"a","m","a","z","i","n","g">>, <<"p","r","o","d","u","c","t">>,
     <<"n","o","t">>, <<"v","e","r","y">>}

\* the words of ws from position i on, with a space between two words
RECURSIVE JoinWords(_, _)
JoinWords(ws, i) ==
    IF i > Len(ws)
    THEN <<>>
    ELSE IF i = Len(ws)
         THEN ws[i]
         ELSE ws[i] \o <<" ">> \o JoinWords(ws, i + 1)

LexiconTexts ==
    {JoinWords(ws, 1) : ws \in UNION {[1..k -> Vocabulary] : k \in 0..MaxWordsLexicon}}

InitLexicon ==
    /\ pc = "lexicon"
    /\ exception = "none"
    /\ report = Blank
    /\ input_type = "Text Input"
    /\ text \in LexiconTexts
    /\ url = ""
    /\ page = NoPage
    /\ stop_words = {}
    /\ positive_words = {}
    /\ negative_words = {}

NextLexicon == weighted_lexicon_call

SpecLexicon == InitLexicon /\ [][NextLexicon]_vars

----------------------------------------------------------------------------
(* Notions the claims are stated in. *)

\* main has called the metric functions on text
Analysed == pc \in {"done", "raised"}

\* the number of whitespace-separated tokens of s: the places where one starts
TokenStarts(s) ==
    Cardinality({i \in 1..Len(s) :
                   s[i] \notin Whitespace /\ (i = 1 \/ s[i - 1] \in Whitespace)})

\* the number of maximal runs of '.', '!', '?' in s: the places where one starts
TerminatorRuns(s) ==
    Cardinality({i \in 1..Len(s) :
                   s[i] \in Terminators /\ (i = 1 \/ s[i - 1] \notin Terminators)})

\* the lowercased, punctuation-stripped tokens of the text
NormalTokens(t) == split(strip_punctuation(lower(t)))

\* every punctuation-stripped token of t is a stop word
AllStopWords(t, sw) ==
    \A i \in 1..Len(NormalTokens(t)) : NormalTokens(t)[i] \in sw

IsZero(x) == x[1] = 0

----------------------------------------------------------------------------
(* C1 *)

\* C1: calculate_fog_index returns 0.0, without a division fault, for every
\* text that has zero whitespace-separated words or zero sentences, a
\* non-empty text of whitespace included.  Stated on the run of main that
\* analysed such a text: the call returned 0.0 and the run was not ended by an
\* exception.
C1_FogZeroWithoutWords ==
    (Analysed /\ (TokenStarts(text) = 0 \/ Len(re_split_sentences(text)) = 0))
        => /\ calculate_fog_index(text, stop_words).exc = "none"
           /\ IsZero(calculate_fog_index(text, stop_words).value)
           /\ pc = "done"
           /\ IsZero(report.fog_index)

----------------------------------------------------------------------------
(* C2 *)

\* C2: count_syllables returns an integer >= 1 and never raises for every
\* token that reaches it, one-character tokens included, and so
\* calculate_average_syllables_per_word yields a value for every text and
\* stop-word list.  Stated on the run of main that analysed the text.
C2_SyllablesNeverRaise ==
    Analysed
        => /\ \A i \in 1..Len(filtered_words(text, stop_words)) :
                  LET r == count_syllables(filtered_words(text, stop_words)[i])
                  IN  r.exc = "none" /\ r.value >= 1
           /\ calculate_average_syllables_per_word(text, stop_words).exc = "none"
           /\ exception # "IndexError"

----------------------------------------------------------------------------
(* C3 *)

\* C3: for every text and every choice of stop, positive and negative word
\* lists, overlapping ones included, calculate_polarity_subjectivity returns
\* a polarity p with -1 <= p <= 1 and a subjectivity s with 0 <= s <= 1; the
\* same holds of the polarity and subjectivity main reports.
C3_PolaritySubjectivityRange ==
    LET r == calculate_polarity_subjectivity(text, stop_words, positive_words,
                                              negative_words)
        InRange(p, s) ==
            /\ p[2] > 0 /\ s[2] > 0
            /\ -p[2] <= p[1] /\ p[1] <= p[2]
            /\ 0 <= s[1] /\ s[1] <= s[2]
    IN  /\ r.exc = "none"
        /\ InRange(r.value[1], r.value[2])
        /\ pc = "done" => InRange(report.polarity, report.subjectivity)

\* C3 witness: an analysed text with a word that is both positive and
\* negative and a word that is only positive: polarity 1/2, subjectivity 1
C3_Witness ==
    /\ pc = "done"
    /\ \E i \in 1..Len(NormalTokens(text)) :
          NormalTokens(text)[i] \in positive_words \cap negative_words
    /\ report.polarity[1] * 2 = report.polarity[2]
    /\ report.subjectivity[1] = report.subjectivity[2]

----------------------------------------------------------------------------
(* C4 *)

\* the four metrics over the filtered words are 0.0 and the label is Neutral
FilteredMetricsZero(r) ==
    /\ IsZero(r.polarity)
    /\ IsZero(r.subjectivity)
    /\ IsZero(r.average_word_length)
    /\ IsZero(r.average_syllables_per_word)
    /\ r.sentiment = "Neutral"

----------------------------------------------------------------------------
(* C5 *)

AllMetricsZero(r) ==
    /\ IsZero(r.polarity)
    /\ IsZero(r.subjectivity)
    /\ IsZero(r.fog_index)
    /\ r.complex_word_count = 0
    /\ r.word_count = 0
    /\ r.stop_word_count = 0
    /\ r.personal_pronoun_count = 0
    /\ IsZero(r.average_word_length)
    /\ IsZero(r.average_syllables_per_word)
    /\ IsZero(r.average_sentence_length)
    /\ IsZero(r.percentage_complex_words)
    /\ r.sentiment = "Neutral"

\* C5: for the empty text and any word lists every metric is zero and the
\* label is Neutral: the metrics calculated on the empty text with the
\* loaded word lists, and the report of a run of main that analysed the
\* empty text (the run is not ended by an exception).
C5_EmptyTextAllZero ==
    /\ LET r == calculate_metrics(<<>>, stop_words, positive_words, negative_words)
       IN  r.exc = "none" /\ AllMetricsZero(r.value)
    /\ (pc # "idle" /\ input_type = "URL Analysis" /\ url # ""
           /\ page.ok /\ page.text = <<>>)
          => pc = "done" /\ text = <<>> /\ AllMetricsZero(report)

\* C5 witness: a report on the empty text, with word lists that are not empty
C5_Witness ==
    /\ pc = "done"
    /\ text = <<>>
    /\ stop_words # {} /\ positive_words # {} /\ negative_words # {}
    /\ AllMetricsZero(report)

----------------------------------------------------------------------------
(* C6 *)

\* C6: for every non-empty analysed text the reported Fog Index equals
\* 0.4 x (reported average sentence length + reported percentage of complex
\* words), and the reported percentage of complex words is
\* 100 x complex_word_count / (count of raw whitespace-split tokens).
C6_FogFromReportedParts ==
    (pc = "done" /\ text # <<>>)
        => /\ REq(report.fog_index,
                  RMul(<<2, 5>>, RAdd(report.average_sentence_length,
                                      report.percentage_complex_words)))
           /\ report.percentage_complex_words[1] * TokenStarts(text)
                = 100 * report.complex_word_count * report.percentage_complex_words[2]

----------------------------------------------------------------------------
(* C7 *)

\* C7: after the Analyze button is pressed the metric functions are invoked
\* only on a non-empty text: an empty text input, an empty URL, a failed
\* scrape and a scrape that yields the empty text all end the run with no
\* analysis and no report.
C7_NoAnalysisWithoutText ==
    LET nothing_to_analyse ==
            \/ input_type = "Text Input" /\ text = <<>>
            \/ input_type = "URL Analysis"
                  /\ (url = "" \/ ~page.ok \/ page.text = <<>>)
    IN  /\ Analysed => text # <<>>
        /\ nothing_to_analyse => (~Analysed /\ report = Blank)

----------------------------------------------------------------------------
(* C8 *)

\* C8: for every text and stop-word list count_stop_words(text) +
\* count_words(text) is the number of whitespace-separated tokens of the
\* lowercased, punctuation-stripped text, and so are the two counts main
\* reports.
C8_StopWordsAndWordsPartition ==
    LET tokens == TokenStarts(strip_punctuation(lower(text)))
    IN  /\ count_stop_words(text, stop_words) + count_words(text, stop_words) = tokens
        /\ pc = "done" => report.stop_word_count + report.word_count = tokens

\* C8 witness: a report on a text with punctuation in which a stop word and
\* another word were counted
C8_Witness ==
    /\ pc = "done"
    /\ \E i \in 1..Len(text) : text[i] \in Punctuation
    /\ report.stop_word_count >= 1
    /\ report.word_count >= 1

----------------------------------------------------------------------------
(* C9 *)

\* the vowel-group starts of a word: the vowels not preceded by a vowel
VowelGroupStarts(w) ==
    Cardinality({i \in 1..Len(w) : w[i] \in Vowels /\ (i = 1 \/ w[i - 1] \notin Vowels)})

\* 1 for a word that ends in "e" with a vowel before it, else 0
TrailingE(w) ==
    IF Len(w) >= 2 /\ w[Len(w)] = "e" /\ w[Len(w) - 1] \in Vowels THEN 1 ELSE 0

\* the tokens of t that the claim calls complex, by their positions
ComplexTokens(t, sw) ==
    {i \in 1..Len(NormalTokens(t)) :
        LET w == NormalTokens(t)[i]
        IN  /\ w \notin sw
            /\ Len(w) > 2
            /\ VowelGroupStarts(w) - TrailingE(w) >= 3}

\* C9: count_complex_words counts a stop-word-filtered, punctuation-stripped
\* token exactly when its length is > 2 and its number of vowel-group starts,
\* minus 1 if it ends in "e" after a vowel, is >= 3, with no floor at 1; the
\* complex-word count main reports is that number.
C9_ComplexWordsExactly ==
    /\ count_complex_words(text, stop_words)
         = Cardinality(ComplexTokens(text, stop_words))
    /\ pc = "done"
          => report.complex_word_count = Cardinality(ComplexTokens(text, stop_words))

\* C9 witness: a report that counts a complex word whose letters are
\* separated by punctuation in the text
C9_Witness ==
    /\ pc = "done"
    /\ report.complex_word_count = 1
    /\ \E i \in 2..(Len(text) - 1) : text[i] \in Punctuation

----------------------------------------------------------------------------
(* C10 *)

\* C10: analyze_sentiment returns Positive exactly when polarity > 0.2,
\* Negative exactly when polarity < -0.2 and Neutral otherwise: 0.2 and -0.2
\* themselves are Neutral.  The polarity is the quotient n/d, so that
\* polarity > 0.2 is 5n > d.
C10_SentimentThresholds ==
    pc = "labelled"
        => LET n == report.polarity[1]
               d == report.polarity[2]
           IN  /\ report.sentiment \in {"Positive", "Negative", "Neutral"}
               /\ report.sentiment = "Positive" <=> 5 * n > d
               /\ report.sentiment = "Negative" <=> 5 * n < -d
               /\ report.sentiment = "Neutral" <=> (5 * n <= d /\ 5 * n >= -d)

\* C10 witness: the polarity 0.2 itself has been labelled Neutral
C10_Witness ==
    /\ pc = "labelled"
    /\ report.polarity = <<1, 5>>
    /\ report.sentiment = "Neutral"

----------------------------------------------------------------------------
(* C11 *)

\* "I love this amazing product"
LoveProduct ==
    <<"I", " ", "l","o","v","e", " ", "t","h","i","s", " ",
      "a","m","a","z","i","n","g", " ", "p","r","o","d","u","c","t">>

\* C11 as stated: under the Weighted-Lexicon strategy the text "I love this
\* amazing product" with lexicon {love: 0.9, amazing: 0.9, others 0.0} yields
\* 6 tokens, raw score 1.8, final score 0.3 and label Positive.
C11_LoveProductSixTokens ==
    (pc = "scored" /\ text = LoveProduct)
        => /\ report.tokens = 6
           /\ report.raw[1] * 10 = 18 * report.raw[2]
           /\ report.score[1] * 10 = 3 * report.score[2]
           /\ report.label = "Positive"

\* C11 amended: the text has 5 word-boundary tokens, so it yields 5 tokens,
\* raw score 1.8, final score 1.8 / 5 = 0.36 and label Positive.
C11_LoveProductFiveTokens ==
    (pc = "scored" /\ text = LoveProduct)
        => /\ report.tokens = 5
           /\ report.raw[1] * 10 = 18 * report.raw[2]
           /\ report.score[1] * 100 = 36 * report.score[2]
           /\ report.label = "Positive"

\* C11 witness: the text has been scored
C11_Witness ==
    /\ pc = "scored"
    /\ text = LoveProduct
    /\ report.tokens = 5
    /\ report.label = "Positive"

----------------------------------------------------------------------------
(* C12 *)

\* the non-empty segments of t between terminators: the places where one starts
NonEmptySegments(t) ==
    Cardinality({i \in 1..Len(t) :
                   t[i] \notin Terminators /\ (i = 1 \/ t[i - 1] \in Terminators)})

EndsWithTerminator(t) == Len(t) >= 1 /\ t[Len(t)] \in Terminators

BeginsWithTerminator(t) == Len(t) >= 1 /\ t[1] \in Terminators

\* the sentence count is 1 + the number of terminator runs, in
\* calculate_fog_index and in the average sentence length and Fog Index of
\* the report
SentenceCountIsRunsPlusOne ==
    text # <<>>
        => LET sentences == Len(re_split_sentences(text))
               runs == TerminatorRuns(text)
               words == TokenStarts(text)
           IN  /\ sentences = 1 + runs
               /\ sentences >= 1
               /\ pc = "done"
                     => /\ report.average_sentence_length[1] * (1 + runs)
                             = words * report.average_sentence_length[2]
                        /\ report.fog_index[1] * 5 * (1 + runs) * words
                             = 2 * (words * words
                                    + 100 * report.complex_word_count * (1 + runs))
                                 * report.fog_index[2]

\* C12 as stated: for every non-empty text the sentence count of
\* calculate_fog_index and of main's average sentence length is 1 + the
\* number of maximal runs of '.', '!', '?', hence >= 1, and a text that ends
\* with a terminator is counted with one sentence more than it has non-empty
\* segments.  The last part is stated on the texts main has analysed.
C12_SentenceCountOneMoreAtEnd ==
    /\ SentenceCountIsRunsPlusOne
    /\ (Analysed /\ text # <<>> /\ EndsWithTerminator(text))
          => Len(re_split_sentences(text)) = NonEmptySegments(text) + 1

\* C12 amended: the sentence count is 1 + the number of maximal runs of '.',
\* '!', '?', hence >= 1 (the total_sentences == 0 return is never taken), and
\* a text that ends with a terminator is counted with one sentence more than
\* it has non-empty segments, or two more when it also begins with a
\* terminator.  The last part is stated on the texts main has analysed.
C12_SentenceCountRunsPlusOne ==
    /\ SentenceCountIsRunsPlusOne
    /\ (Analysed /\ text # <<>> /\ EndsWithTerminator(text))
          => Len(re_split_sentences(text))
               = NonEmptySegments(text) + 1
                 + (IF BeginsWithTerminator(text) THEN 1 ELSE 0)

\* C12 witness: a report on a text with two terminator runs, one of them at
\* its end, and none at its beginning
C12_Witness ==
    /\ pc = "done"
    /\ TerminatorRuns(text) = 2
    /\ EndsWithTerminator(text)
    /\ ~BeginsWithTerminator(text)
    /\ report.average_sentence_length[2] = 3

----------------------------------------------------------------------------
(* C13 *)

\* C13: the subjectivity returned by calculate_polarity_subjectivity is 0.0
\* or 1.0: 1.0 exactly when the text has a punctuation-stripped token that is
\* not a stop word, whatever the positive and negative word lists are; the
\* reported subjectivity is that value.
C13_SubjectivityZeroOrOne ==
    LET has_word == \E i \in 1..Len(NormalTokens(text)) :
                        NormalTokens(text)[i] \notin stop_words
        Is(s) == /\ s[2] > 0
                 /\ s[1] = (IF has_word THEN s[2] ELSE 0)
    IN  /\ \A wl \in WordLists :
              Is(calculate_polarity_subjectivity(text, stop_words, wl.pos, wl.neg).value[2])
        /\ Is(calculate_polarity_subjectivity(text, stop_words, positive_words,
                                              negative_words).value[2])
        /\ pc = "done" => Is(report.subjectivity)

\* C13 witness: a report with subjectivity 1.0 on a text with a stop word and
\* a word that is neither positive nor negative
C13_Witness ==
    /\ pc = "done"
    /\ positive_words # {} /\ negative_words # {}
    /\ report.stop_word_count >= 1
    /\ report.word_count >= 1
    /\ IsZero(report.polarity)
    /\ \A i \in 1..Len(NormalTokens(text)) :
          NormalTokens(text)[i] \notin positive_words \cup negative_words
    /\ report.subjectivity[1] = report.subjectivity[2]

====
